---- MODULE Spec2Model ----
(***************************************************************************)
(* Model of the retrying bot runners of botcity-rpa-template:              *)
(*   BotRunnerMaestro.run  (src/botcity/botcity_maestro.py, 300-379)       *)
(*   BotRunnerLocal.run    (src/botcity/botcity_local.py,   228-284)       *)
(* One run() is a sequential program; every statement of run() that calls  *)
(* a collaborator is one action, and every such call either returns or     *)
(* raises.  The try / except / finally structure of the Python code is     *)
(* kept: an exception raised anywhere in the try block is caught by the    *)
(* handler, an exception raised in the handler or in the finally block     *)
(* leaves run().                                                           *)
(***************************************************************************)
EXTENDS Integers, Sequences, FiniteSets, TLC

\* ------------------------------------------------------------------ bounds

\* Largest value of settings.MAX_RETRIES explored.
MaxRetriesBound == 2

\* Largest items-processed count the Task Body returns.
MaxItems == 2

\* ------------------------------------------------------------------- state

VARIABLES
    variant,          \* which runner class runs: "maestro" or "local"
    settings,         \* the settings singleton: MAX_RETRIES, USE_SHAREPOINT, USE_DATABASE
    pc,               \* position of run()
    attempts,         \* the local variable attempts of run()
    items_processed,  \* the local variable items_processed: <<>> is None, <<n>> is the int n
    e,                \* the exception bound by "except Exception as e"
    exc,              \* the exception in flight, or the one that left run()
    pending,          \* what the finally block resumes: "break", "continue" or "raise"
    taskHistory,      \* outcome of every Task Body invocation, in order: "ok" / "fail"
    caught,           \* every exception the handler caught, in order
    collabRaised,     \* some collaborator call of this run has raised
    lateRaises,       \* the calls made in the handler or the finally block that raised
    errorCalls,       \* number of maestro.error calls made
    finishCalls,      \* status of every maestro.finish_task call made, in order
    artifactCalls,    \* number of maestro.post_artifact calls made
    uploadCalls,      \* number of sharepoint.upload_files calls made
    uploadsDone,      \* number of sharepoint.upload_files calls that returned
    dbCalls,          \* number of _insert_database_log_execution calls made
    dbLog,            \* items_processed of every row inserted, in order
    attemptLog,       \* the calls that returned in this iteration of the loop
    store,            \* the remote document store: folders, subfolders, files
    uploader,         \* per upload_files call: its position and local variables
    uploads,          \* the upload_files calls one client made one after the other
    now,              \* time.time(), in seconds
    start_time,       \* self.start_time
    execution_time,   \* the local execution_time of run()
    timeline,         \* when the attempt began, and the execution times it reported
    telegram          \* self.telegram_token, self.telegram_bot and the calls it served

vars == <<variant, settings, pc, attempts, items_processed, e, exc, pending,
          taskHistory, caught, collabRaised, lateRaises, errorCalls,
          finishCalls, artifactCalls, uploadCalls, uploadsDone, dbCalls, dbLog,
          attemptLog, store, uploader, uploads, now, start_time, execution_time,
          timeline, telegram>>

\* -------------------------------------------------------------- exceptions

NoException == [kind |-> "None", site |-> "none", block |-> "none"]

Raised(kind, site, block) == [kind |-> kind, site |-> site, block |-> block]

\* Optional[int]: None, or an int (a Task Body may return any int).
None == <<>>

ItemsValues == {None} \cup { <<n>> : n \in -1..MaxItems }

\* Values of settings.MAX_RETRIES: an unvalidated int field.
RetriesValues == -1..MaxRetriesBound

\* ----------------------------------------------------- decisions of run()

\* while attempts <= settings.MAX_RETRIES
LoopConditionStrict == attempts < settings.MAX_RETRIES

LoopConditionOneMore == attempts <= settings.MAX_RETRIES + 1

LoopCondition == attempts <= settings.MAX_RETRIES

\* if attempts > settings.MAX_RETRIES (in the handler)
ExhaustedOffByOne == attempts >= settings.MAX_RETRIES

ExhaustedLate == attempts > settings.MAX_RETRIES + 1

Exhausted == attempts > settings.MAX_RETRIES

\* The else branch of the database decision: USE_DATABASE and a count > 0.
ShouldInsertAnyCount(items) == settings.USE_DATABASE /\ items # None

ShouldInsert(items) ==
    /\ settings.USE_DATABASE
    /\ ~(items = None \/ items[1] <= 0)

\* The items_processed parameter of the inserted row: the count itself.
InsertedRowAlwaysOne(items) == 1

InsertedRow(items) == items[1]

\* if settings.USE_SHAREPOINT (the local runner uploads unconditionally)
UsesSharepointNever == FALSE

UsesSharepointLocalOnly == variant = "local"

UsesSharepoint == variant = "local" \/ settings.USE_SHAREPOINT

\* Leaving the try statement: BotRunnerMaestro runs the finally block first,
\* BotRunnerLocal has none.
LeaveTryNoFinallyOnBreak(how) ==
    IF variant = "maestro" /\ how # "break"
    THEN [pc |-> "finally", pending |-> how]
    ELSE [pc |-> CASE how = "break" -> "returned"
                   [] how = "continue" -> "loop"
                   [] OTHER -> "raised",
          pending |-> "none"]

LeaveTry(how) ==
    IF variant = "maestro"
    THEN [pc |-> "finally", pending |-> how]
    ELSE [pc |-> CASE how = "break" -> "returned"
                   [] how = "continue" -> "loop"
                   [] OTHER -> "raised",
          pending |-> "none"]

\* The first statement of the handler after the counter is incremented to n:
\* BotRunnerMaestro reports the error, BotRunnerLocal goes to the decision.
AfterCatchReportWhenExhausted(n) ==
    IF variant = "maestro" /\ n > settings.MAX_RETRIES THEN "error" ELSE "retry_decision"

AfterCatch(n) == IF variant = "maestro" THEN "error" ELSE "retry_decision"

\* The handler's upload before raise e: BotRunnerMaestro, under
\* settings.USE_SHAREPOINT; the handler of BotRunnerLocal has none.
UploadsOnExhaustionNever == FALSE

UploadsOnExhaustion == variant = "maestro" /\ settings.USE_SHAREPOINT

\* raise e
GenericError == [kind |-> "Exception", site |-> "run", block |-> "except"]

ReraisedError == e

\* The statement after finish_task(SUCCESS) / after the database step: break.
SuccessExitContinue == "continue"

SuccessExit == "break"

\* logger.info(f"Bot execution started. Attempt {attempts}")
AttemptLoggedOneBased == <<attempts + 1>>

AttemptLogged == <<attempts>>

\* ------------------------------------------------- document store: values

\* The upload_files calls that run against one store.
Uploaders == {1, 2}

\* The store and an upload_files call while only run() is observed.
NoStore == [folders |-> <<>>, subfolders |-> {}, files |-> {}]

NotCalled ==
    [pc |-> "not_called", file_paths |-> <<>>, matching_folders |-> <<>>,
     subfolder_names |-> {}, existing_files |-> {}, final_names |-> <<>>,
     calls |-> <<>>, error |-> "None"]

\* ------------------------------------------------------------------- clock

\* Largest clock value explored, in seconds.
MaxClock == 3

\* Nothing has been timed or reported yet.
NoTimeline == [began |-> 0, captured_at |-> 0, reports |-> <<>>, attempt |-> None]

\* The runners of src/botcity have no Telegram bot.
NoTelegram == [telegram_token |-> "None", telegram_bot |-> "None", calls |-> <<>>]

\* self.start_time = time.time()
StartTimeOnce(old) == IF old = None THEN <<now>> ELSE old

StartTime(old) == <<now>>

\* _get_execution_time: the elapsed seconds as days, hours, minutes and
\* seconds, the fields of 'DD:HH:MM:SS'.
ExecutionTime(end_time, start) ==
    IF start = None
    THEN <<"Execution time not available">>
    ELSE LET elapsed_seconds == end_time - start[1]
             days == elapsed_seconds \div 86400
             hours == (elapsed_seconds % 86400) \div 3600
             minutes == ((elapsed_seconds % 86400) % 3600) \div 60
             seconds == ((elapsed_seconds % 86400) % 3600) % 60
         IN  <<days, hours, minutes, seconds>>

\* One execution time handed to the log, the tracking client or the database.
Report(kind, time, at) == [kind |-> kind, time |-> time, at |-> at, began |-> timeline.began]

\* -------------------------------------------------------------------- Init

Init ==
    /\ variant \in {"maestro", "local"}
    /\ settings \in [MAX_RETRIES : RetriesValues,
                     USE_SHAREPOINT : BOOLEAN,
                     USE_DATABASE : BOOLEAN]
    /\ pc = "idle"
    /\ attempts = 0
    /\ items_processed = None
    /\ e = NoException
    /\ exc = NoException
    /\ pending = "none"
    /\ taskHistory = <<>>
    /\ caught = <<>>
    /\ collabRaised = FALSE
    /\ lateRaises = {}
    /\ errorCalls = 0
    /\ finishCalls = <<>>
    /\ artifactCalls = 0
    /\ uploadCalls = 0
    /\ uploadsDone = 0
    /\ dbCalls = 0
    /\ dbLog = <<>>
    /\ attemptLog = <<>>
    /\ store = NoStore
    /\ uploader = [p \in Uploaders |-> NotCalled]
    /\ uploads = <<>>
    /\ now = 0
    /\ start_time = None
    /\ execution_time = None
    /\ timeline = NoTimeline
    /\ telegram = NoTelegram

\* ----------------------------------------------------------------- helpers

Config == <<variant, settings>>

Clock == <<now, start_time, execution_time, timeline>>

Counters == <<errorCalls, finishCalls, artifactCalls, uploadCalls, uploadsDone,
              dbCalls, dbLog>>

\* Everything run() holds but the clock.
runnerState == <<Config, pc, attempts, items_processed, e, exc, pending, taskHistory,
                 caught, collabRaised, lateRaises, Counters, attemptLog>>

\* A statement of the try block raises ex: control goes to the handler.
RaiseInTry(ex) ==
    /\ exc' = ex
    /\ pc' = "except"

\* A statement of the handler raises ex (or re-raises e): the finally block
\* runs, then ex leaves run().
RaiseInHandler(ex) ==
    /\ exc' = ex
    /\ pc' = LeaveTry("raise").pc
    /\ pending' = LeaveTry("raise").pending

\* ----------------------------------------------------------------- actions

\* attempts = 0
Run ==
    /\ pc = "idle"
    /\ attempts' = 0
    /\ pc' = "loop"
    /\ UNCHANGED <<Config, telegram, store, uploader, uploads, Clock, attemptLog, items_processed, e, exc, pending, taskHistory, caught,
                   collabRaised, lateRaises, Counters>>

\* The while condition is false: run() falls off the loop and returns.
LoopExit ==
    /\ pc = "loop"
    /\ ~LoopCondition
    /\ pc' = "returned"
    /\ UNCHANGED <<Config, telegram, store, uploader, uploads, Clock, attemptLog, attempts, items_processed, e, exc, pending, taskHistory,
                   caught, collabRaised, lateRaises, Counters>>

\* self.start_time = time.time(); items_processed = self._execute_bot_task()
ExecuteBotTask ==
    /\ pc = "loop"
    /\ LoopCondition
    /\ start_time' = StartTime(start_time)
    /\ timeline' = [timeline EXCEPT !.began = now, !.reports = <<>>,
                                    !.attempt = AttemptLogged]
    /\ \E outcome \in {"ok", "fail"} :
         /\ taskHistory' = Append(taskHistory, outcome)
         /\ IF outcome = "ok"
            THEN /\ \E r \in ItemsValues : items_processed' = r
                 /\ pc' = "resource_usage"
                 /\ exc' = exc
                 /\ attemptLog' = <<"_execute_bot_task">>
            ELSE /\ RaiseInTry(Raised("TaskFailure", "_execute_bot_task", "try"))
                 /\ items_processed' = items_processed
                 /\ attemptLog' = <<>>
    /\ UNCHANGED <<Config, telegram, store, uploader, uploads, now, execution_time, attempts, e, pending, caught, collabRaised,
                   lateRaises, Counters>>

\* execution_time = self._get_execution_time()
\* resource_usage = self._get_resource_usage()
\* Both read the clock and the host counters and return strings; neither
\* calls a remote collaborator.
GetResourceUsage ==
    /\ pc = "resource_usage"
    /\ pc' = IF variant = "local" THEN "list_folders" ELSE "upload"
    /\ attemptLog' = Append(attemptLog, "_get_resource_usage")
    /\ execution_time' = ExecutionTime(now, start_time)
    /\ timeline' = [timeline EXCEPT
                       !.captured_at = now,
                       !.reports = Append(@, Report("log", execution_time', now))]
    /\ UNCHANGED <<Config, telegram, store, uploader, uploads, now, start_time, attempts, items_processed, e, exc, pending, taskHistory,
                   caught, collabRaised, lateRaises, Counters>>

\* BotRunnerLocal only: self.sharepoint.list_folders_by_number()
ListFoldersByNumber ==
    /\ pc = "list_folders"
    /\ \E ok \in BOOLEAN :
         IF ok
         THEN /\ pc' = "upload"
              /\ attemptLog' = Append(attemptLog, "list_folders_by_number")
              /\ UNCHANGED <<exc, collabRaised>>
         ELSE /\ RaiseInTry(Raised("RemoteIOError", "list_folders_by_number", "try"))
              /\ collabRaised' = TRUE
              /\ attemptLog' = attemptLog
    /\ UNCHANGED <<Config, telegram, store, uploader, uploads, Clock, attempts, items_processed, e, pending, taskHistory,
                   caught, lateRaises, Counters>>

\* if settings.USE_SHAREPOINT: self.sharepoint.upload_files([log_path])
UploadFilesOnSuccess ==
    /\ pc = "upload"
    /\ IF UsesSharepoint
       THEN \E outcome \in {"ok", "NotFound", "RemoteIOError"} :
              /\ uploadCalls' = uploadCalls + 1
              /\ IF outcome = "ok"
                 THEN /\ uploadsDone' = uploadsDone + 1
                      /\ pc' = "database"
                      /\ attemptLog' = Append(attemptLog, "upload_files")
                      /\ UNCHANGED <<exc, collabRaised>>
                 ELSE /\ uploadsDone' = uploadsDone
                      /\ RaiseInTry(Raised(outcome, "upload_files", "try"))
                      /\ collabRaised' = TRUE
                      /\ attemptLog' = attemptLog
       ELSE /\ pc' = "database"
            /\ UNCHANGED <<exc, collabRaised, uploadCalls, uploadsDone, attemptLog>>
    /\ UNCHANGED <<Config, telegram, store, uploader, uploads, Clock, attempts, items_processed, e, pending, taskHistory,
                   caught, lateRaises, errorCalls, finishCalls, artifactCalls,
                   dbCalls, dbLog>>

\* if not USE_DATABASE ... elif items_processed is None or <= 0 ... else
\*     self._insert_database_log_execution(items_processed)
\* The insert connects, executes the query and disconnects: it can raise
\* before the row is written or, in disconnect(), after it.
DatabaseLogging ==
    /\ pc = "database"
    /\ IF ShouldInsert(items_processed)
       THEN \E outcome \in {"ok", "raise_before_insert", "raise_after_insert"} :
              /\ dbCalls' = dbCalls + 1
              /\ dbLog' = IF outcome = "raise_before_insert"
                          THEN dbLog
                          ELSE Append(dbLog, InsertedRow(items_processed))
              /\ timeline' = IF outcome = "raise_before_insert"
                             THEN timeline
                             ELSE [timeline EXCEPT !.reports =
                                     Append(@, Report("database",
                                                      ExecutionTime(now, start_time),
                                                      now))]
              /\ IF outcome = "ok"
                 THEN /\ pc' = IF variant = "maestro" THEN "finish_success"
                               ELSE LeaveTry(SuccessExit).pc
                      /\ attemptLog' =
                             Append(attemptLog, "_insert_database_log_execution")
                      /\ UNCHANGED <<exc, collabRaised>>
                 ELSE /\ RaiseInTry(Raised("DatabaseError",
                                           "_insert_database_log_execution", "try"))
                      /\ collabRaised' = TRUE
                      /\ attemptLog' = attemptLog
       ELSE /\ pc' = IF variant = "maestro" THEN "finish_success"
                     ELSE LeaveTry(SuccessExit).pc
            /\ UNCHANGED <<exc, collabRaised, dbCalls, dbLog, attemptLog, timeline>>
    /\ UNCHANGED <<Config, telegram, store, uploader, uploads, now, start_time, execution_time, attempts, items_processed, e, pending, taskHistory,
                   caught, lateRaises, errorCalls, finishCalls, artifactCalls,
                   uploadCalls, uploadsDone>>

\* BotRunnerMaestro only: self.maestro.finish_task(task_id, SUCCESS, message); break
FinishTaskSuccess ==
    /\ pc = "finish_success"
    /\ finishCalls' = Append(finishCalls, "SUCCESS")
    /\ timeline' = [timeline EXCEPT !.reports =
                       Append(@, Report("message", execution_time, timeline.captured_at))]
    /\ \E ok \in BOOLEAN :
         IF ok
         THEN /\ pc' = LeaveTry(SuccessExit).pc
              /\ pending' = LeaveTry(SuccessExit).pending
              /\ attemptLog' = Append(attemptLog, "finish_task(SUCCESS)")
              /\ UNCHANGED <<exc, collabRaised>>
         ELSE /\ RaiseInTry(Raised("RemoteIOError", "finish_task", "try"))
              /\ collabRaised' = TRUE
              /\ pending' = pending
              /\ attemptLog' = attemptLog
    /\ UNCHANGED <<Config, telegram, store, uploader, uploads, now, start_time, execution_time, attempts, items_processed, e, taskHistory, caught,
                   lateRaises, errorCalls, artifactCalls, uploadCalls,
                   uploadsDone, dbCalls, dbLog>>

\* except Exception as e: attempts += 1; logger.error(...)
ExceptHandler ==
    /\ pc = "except"
    /\ e' = exc
    /\ caught' = Append(caught, exc)
    /\ attempts' = attempts + 1
    /\ pc' = AfterCatch(attempts + 1)
    /\ UNCHANGED <<Config, telegram, store, uploader, uploads, Clock, attemptLog, items_processed, exc, pending, taskHistory,
                   collabRaised, lateRaises, Counters>>

\* BotRunnerMaestro only: self.maestro.error(task_id, e, attachments=[log_path])
MaestroError ==
    /\ pc = "error"
    /\ errorCalls' = errorCalls + 1
    /\ \E ok \in BOOLEAN :
         IF ok
         THEN /\ pc' = "finish_failed"
              /\ attemptLog' = Append(attemptLog, "maestro.error")
              /\ UNCHANGED <<exc, pending, collabRaised, lateRaises>>
         ELSE /\ RaiseInHandler(Raised("RemoteIOError", "error", "except"))
              /\ collabRaised' = TRUE
              /\ lateRaises' = lateRaises \cup {exc'.site}
              /\ attemptLog' = attemptLog
    /\ UNCHANGED <<Config, telegram, store, uploader, uploads, Clock, attempts, items_processed, e, taskHistory, caught,
                   finishCalls, artifactCalls, uploadCalls, uploadsDone, dbCalls,
                   dbLog>>

\* BotRunnerMaestro only: self.maestro.finish_task(task_id, FAILED, message)
FinishTaskFailed ==
    /\ pc = "finish_failed"
    /\ finishCalls' = Append(finishCalls, "FAILED")
    /\ \E ok \in BOOLEAN :
         IF ok
         THEN /\ pc' = "retry_decision"
              /\ attemptLog' = Append(attemptLog, "finish_task(FAILED)")
              /\ UNCHANGED <<exc, pending, collabRaised, lateRaises>>
         ELSE /\ RaiseInHandler(Raised("RemoteIOError", "finish_task", "except"))
              /\ collabRaised' = TRUE
              /\ lateRaises' = lateRaises \cup {exc'.site}
              /\ attemptLog' = attemptLog
    /\ UNCHANGED <<Config, telegram, store, uploader, uploads, Clock, attempts, items_processed, e, taskHistory, caught,
                   errorCalls, artifactCalls, uploadCalls, uploadsDone, dbCalls,
                   dbLog>>

\* if attempts > settings.MAX_RETRIES: ... raise e   else: retry
\* BotRunnerMaestro uploads the log to SharePoint before raise e.
RetryDecision ==
    /\ pc = "retry_decision"
    /\ IF Exhausted
       THEN IF UploadsOnExhaustion
            THEN /\ pc' = "upload_exhausted"
                 /\ UNCHANGED <<exc, pending>>
            ELSE RaiseInHandler(ReraisedError)
       ELSE /\ pc' = LeaveTry("continue").pc
            /\ pending' = LeaveTry("continue").pending
            /\ exc' = NoException
    /\ UNCHANGED <<Config, telegram, store, uploader, uploads, Clock, attemptLog, attempts, items_processed, e, taskHistory, caught,
                   collabRaised, lateRaises, Counters>>

\* BotRunnerMaestro only, in the handler:
\* self.sharepoint.upload_files([log_path]); raise e
UploadFilesOnExhaustion ==
    /\ pc = "upload_exhausted"
    /\ uploadCalls' = uploadCalls + 1
    /\ \E outcome \in {"ok", "NotFound", "RemoteIOError"} :
         IF outcome = "ok"
         THEN /\ uploadsDone' = uploadsDone + 1
              /\ RaiseInHandler(ReraisedError)
              /\ attemptLog' = Append(attemptLog, "upload_files(exhausted)")
              /\ UNCHANGED <<collabRaised, lateRaises>>
         ELSE /\ uploadsDone' = uploadsDone
              /\ RaiseInHandler(Raised(outcome, "upload_files", "except"))
              /\ collabRaised' = TRUE
              /\ lateRaises' = lateRaises \cup {exc'.site}
              /\ attemptLog' = attemptLog
    /\ UNCHANGED <<Config, telegram, store, uploader, uploads, Clock, attempts, items_processed, e, taskHistory, caught,
                   errorCalls, finishCalls, artifactCalls, dbCalls, dbLog>>

\* BotRunnerMaestro only: finally: self._add_log_file_into_maestro()
\* post_artifact returns: the pending break / next iteration / raise resumes.
\* post_artifact raises: _add_log_file_into_maestro re-raises, and that
\* exception leaves run() in place of whatever was pending.
AddLogFileIntoMaestro ==
    /\ pc = "finally"
    /\ artifactCalls' = artifactCalls + 1
    /\ \E ok \in BOOLEAN :
         IF ok
         THEN /\ pc' = CASE pending = "break" -> "returned"
                         [] pending = "continue" -> "loop"
                         [] OTHER -> "raised"
              /\ UNCHANGED <<exc, collabRaised, lateRaises>>
         ELSE /\ pc' = "raised"
              /\ exc' = Raised("RemoteIOError", "_add_log_file_into_maestro", "finally")
              /\ collabRaised' = TRUE
              /\ lateRaises' = lateRaises \cup {exc'.site}
    /\ pending' = "none"
    /\ UNCHANGED <<Config, telegram, store, uploader, uploads, Clock, attemptLog, attempts, items_processed, e, taskHistory, caught,
                   errorCalls, finishCalls, uploadCalls, uploadsDone, dbCalls, dbLog>>

Next ==
    \/ Run
    \/ LoopExit
    \/ ExecuteBotTask
    \/ GetResourceUsage
    \/ ListFoldersByNumber
    \/ UploadFilesOnSuccess
    \/ DatabaseLogging
    \/ FinishTaskSuccess
    \/ ExceptHandler
    \/ MaestroError
    \/ FinishTaskFailed
    \/ RetryDecision
    \/ UploadFilesOnExhaustion
    \/ AddLogFileIntoMaestro

Spec == Init /\ [][Next]_vars

\* run() is sequential code and every call it makes returns or raises: a
\* step that can be taken is taken.
SpecFair == Init /\ [][Next]_vars /\ WF_vars(Next)

\* ---------------------------------------------------------- run() with time
\* A second passes while run() is at work.
Tick ==
    /\ pc \notin {"idle", "returned", "raised"}
    /\ now < MaxClock
    /\ now' = now + 1
    /\ UNCHANGED <<runnerState, telegram, store, uploader, uploads, start_time, execution_time,
                   timeline>>

NextClock == Next \/ Tick

\* Largest value of settings.MAX_RETRIES explored with the clock running.
ClockRetries == 1

InitClock ==
    /\ Init
    /\ settings.MAX_RETRIES \in -1 .. ClockRetries

SpecClock == InitClock /\ [][NextClock]_vars

\* ------------------------------------------- document store: file names
\* Names are sequences of characters, so that the regular expression, the
\* path functions and the f-string of upload_files act on what they act on
\* in the program.

MaxBatch == 2

BOT_NAME == <<"b", "o", "t">>

folder_log == <<"1", "0">>

IsSpace(c) == c \in {" ", "\t"}

StartsWith(s, prefix) ==
    /\ Len(prefix) <= Len(s)
    /\ SubSeq(s, 1, Len(prefix)) = prefix

\* re.match(rf"^{folder_log}\s+-", name): the prefix, one or more white
\* space characters, and a dash.
ReMatch(prefix, name) ==
    /\ StartsWith(name, prefix)
    /\ \E k \in 1 .. Len(name) :
          /\ Len(prefix) + k + 1 <= Len(name)
          /\ \A i \in 1 .. k : IsSpace(name[Len(prefix) + i])
          /\ name[Len(prefix) + k + 1] = "-"

\* os.path.basename: what follows the last separator.
LastIndexOf(s, c) ==
    IF \E i \in 1 .. Len(s) : s[i] = c
    THEN CHOOSE i \in 1 .. Len(s) :
            /\ s[i] = c
            /\ \A j \in (i + 1) .. Len(s) : s[j] # c
    ELSE 0

Basename(file_path) ==
    SubSeq(file_path, LastIndexOf(file_path, "/") + 1, Len(file_path))

\* os.path.splitext: the extension starts at the last dot, unless only
\* dots precede it.
SplitAt(base_name) ==
    LET dot == LastIndexOf(base_name, ".")
    IN  IF dot > 0 /\ \E i \in 1 .. (dot - 1) : base_name[i] # "."
        THEN dot
        ELSE Len(base_name) + 1

Splitext(base_name) ==
    [name |-> SubSeq(base_name, 1, SplitAt(base_name) - 1),
     ext  |-> SubSeq(base_name, SplitAt(base_name), Len(base_name))]

\* str(counter) of the f-string.
RECURSIVE Digits(_)
Digits(n) ==
    LET d == <<"0", "1", "2", "3", "4", "5", "6", "7", "8", "9">>
    IN  IF n < 10 THEN <<d[n + 1]>> ELSE Digits(n \div 10) \o <<d[(n % 10) + 1]>>

\* f"{name}({counter}){ext}"
Format(name, counter, ext) == name \o <<"(">> \o Digits(counter) \o <<")">> \o ext

\* The while loop of upload_files, entered with final_name and counter.
RECURSIVE Resolve(_, _, _, _, _)
Resolve(name, ext, final_name, counter, existing_files) ==
    IF final_name \in existing_files
    THEN Resolve(name, ext, Format(name, counter, ext), counter + 1, existing_files)
    ELSE final_name

FinalNameOneProbe(file_path, existing_files) ==
    LET base_name == Basename(file_path)
        parts == Splitext(base_name)
    IN  IF base_name \in existing_files
        THEN Format(parts.name, 1, parts.ext)
        ELSE base_name

FinalNameKeepBase(file_path, existing_files) == Basename(file_path)

FinalName(file_path, existing_files) ==
    LET base_name == Basename(file_path)
        parts == Splitext(base_name)
    IN  Resolve(parts.name, parts.ext, base_name, 1, existing_files)

\* ---------------------------------------------- document store: upload_files

\* What run() holds while upload_files is observed on its own.
runnerVars == <<variant, settings, pc, attempts, items_processed, e, exc, pending,
                taskHistory, caught, collabRaised, lateRaises, errorCalls,
                finishCalls, artifactCalls, uploadCalls, uploadsDone, dbCalls,
                dbLog, attemptLog, now, start_time, execution_time, timeline,
                telegram>>

\* Folder names under the root log folder.
F_LOGS == <<"1", "0", " ", "-", " ", "L">>

F_OLD == <<"1", "0", " ", "\t", "-", "M">>

F_HUNDRED == <<"1", "0", "0", " ", "-", "X">>

F_NOSPACE == <<"1", "0", "-", "Y">>

Listings ==
    { <<>>,
      <<F_HUNDRED, F_NOSPACE>>,
      <<F_LOGS>>,
      <<F_HUNDRED, F_OLD, F_LOGS>> }

OTHER_BOT == <<"o">>

\* Local files handed to upload_files.
A_LOG == <<"a", ".", "l", "o", "g">>

RC == <<".", "r", "c">>

Paths == { <<"d", "/">> \o A_LOG, RC }

Batches == UNION { [1 .. n -> Paths] : n \in 0 .. MaxBatch }

\* File listings the bot's subfolder may start with.
A_1_LOG == <<"a", "(", "1", ")", ".", "l", "o", "g">>

A_2_LOG == <<"a", "(", "2", ")", ".", "l", "o", "g">>

RemoteListings == { {}, {A_LOG}, {A_LOG, A_1_LOG}, {A_LOG, A_2_LOG, RC} }

Range(seq) == { seq[i] : i \in 1 .. Len(seq) }

\* Every folder holds another bot's subfolder; some hold this bot's, and
\* those hold the same files.
StoresOn(l) ==
    { [folders |-> l,
       subfolders |-> { <<f, OTHER_BOT>> : f \in Range(l) }
                         \cup { <<f, BOT_NAME>> : f \in withBot },
       files |-> { <<f, n>> : f \in withBot, n \in names }] :
         withBot \in SUBSET Range(l), names \in RemoteListings }

Stores == UNION { StoresOn(l) : l \in Listings }

InitUpload ==
    /\ variant = "local"
    /\ settings = [MAX_RETRIES |-> 0, USE_SHAREPOINT |-> TRUE, USE_DATABASE |-> FALSE]
    /\ pc = "idle"
    /\ attempts = 0
    /\ items_processed = None
    /\ e = NoException
    /\ exc = NoException
    /\ pending = "none"
    /\ taskHistory = <<>>
    /\ caught = <<>>
    /\ collabRaised = FALSE
    /\ lateRaises = {}
    /\ errorCalls = 0
    /\ finishCalls = <<>>
    /\ artifactCalls = 0
    /\ uploadCalls = 0
    /\ uploadsDone = 0
    /\ dbCalls = 0
    /\ dbLog = <<>>
    /\ attemptLog = <<>>
    /\ store \in Stores
    /\ uploader = [p \in Uploaders |-> NotCalled]
    /\ uploads = <<>>
    /\ now = 0
    /\ start_time = None
    /\ execution_time = None
    /\ timeline = NoTimeline
    /\ telegram = NoTelegram

\* matching_folders[0]
MainFolderNameLast(matching_folders) == matching_folders[Len(matching_folders)]

MainFolderName(matching_folders) == matching_folders[1]

\* settings.BOT_NAME in subfolder_names
SubfolderExistsNever(subfolder_names) == FALSE

SubfolderExists(subfolder_names) == BOT_NAME \in subfolder_names

\* The store refuses to add a subfolder that is already there.
StoreRejectsDuplicate(folder, name) == <<folder, name>> \in store.subfolders

\* except Exception as e: logger.error(...); raise
OnErrorSwallow(err) == [pc |-> "returned", error |-> err]

OnError(err) == [pc |-> "raised", error |-> err]

\* for file_path in file_paths: the position after one more file.
AfterFile(u) ==
    IF Len(u.final_names) + 1 >= Len(u.file_paths) THEN "returned" ELSE "upload"

Fails(p, call, err) ==
    uploader' = [uploader EXCEPT ![p].pc = OnError(err).pc,
                                 ![p].error = OnError(err).error,
                                 ![p].calls = Append(@, call)]

UploadFiles(p) ==
    /\ uploader[p].pc = "not_called"
    /\ \E file_paths \in Batches :
          uploader' = [uploader EXCEPT ![p].pc = "list_folders",
                                       ![p].file_paths = file_paths]
    /\ UNCHANGED <<runnerVars, store, uploads>>

ListMatchingFolders(p) ==
    /\ uploader[p].pc = "list_folders"
    /\ \E outcome \in {"ok", "RemoteIOError"} :
          IF outcome = "ok"
          THEN LET matching_folders ==
                       SelectSeq(store.folders, LAMBDA name : ReMatch(folder_log, name))
               IN  IF matching_folders = <<>>
                   THEN Fails(p, "list_folders", "NotFound")
                   ELSE uploader' =
                           [uploader EXCEPT ![p].pc = "list_subfolders",
                                            ![p].matching_folders = matching_folders,
                                            ![p].calls = Append(@, "list_folders")]
          ELSE Fails(p, "list_folders", outcome)
    /\ UNCHANGED <<runnerVars, store, uploads>>

ListSubfolders(p) ==
    /\ uploader[p].pc = "list_subfolders"
    /\ \E outcome \in {"ok", "RemoteIOError"} :
          IF outcome = "ok"
          THEN LET main_folder_name == MainFolderName(uploader[p].matching_folders)
                   subfolder_names ==
                       { sf[2] : sf \in { q \in store.subfolders : q[1] = main_folder_name } }
               IN  uploader' =
                      [uploader EXCEPT ![p].pc = IF SubfolderExists(subfolder_names)
                                                 THEN "list_files"
                                                 ELSE "create_subfolder",
                                       ![p].subfolder_names = subfolder_names,
                                       ![p].calls = Append(@, "list_subfolders")]
          ELSE Fails(p, "list_subfolders", outcome)
    /\ UNCHANGED <<runnerVars, store, uploads>>

CreateSubfolder(p) ==
    /\ uploader[p].pc = "create_subfolder"
    /\ LET main_folder_name == MainFolderName(uploader[p].matching_folders)
       IN  IF StoreRejectsDuplicate(main_folder_name, BOT_NAME)
           THEN /\ Fails(p, "create_folder", "Duplicate")
                /\ store' = store
           ELSE \E outcome \in {"ok", "RemoteIOError"} :
                   IF outcome = "ok"
                   THEN /\ store' = [store EXCEPT !.subfolders =
                                        @ \cup {<<main_folder_name, BOT_NAME>>}]
                        /\ uploader' =
                              [uploader EXCEPT ![p].pc = "list_files",
                                               ![p].calls = Append(@, "create_folder")]
                   ELSE /\ Fails(p, "create_folder", outcome)
                        /\ store' = store
    /\ UNCHANGED <<runnerVars, uploads>>

ListFiles(p) ==
    /\ uploader[p].pc = "list_files"
    /\ \E outcome \in {"ok", "RemoteIOError"} :
          IF outcome = "ok"
          THEN LET main_folder_name == MainFolderName(uploader[p].matching_folders)
                   existing_files ==
                       { f[2] : f \in { q \in store.files : q[1] = main_folder_name } }
               IN  uploader' =
                      [uploader EXCEPT ![p].pc = IF uploader[p].file_paths = <<>>
                                                 THEN "returned"
                                                 ELSE "upload",
                                       ![p].existing_files = existing_files,
                                       ![p].calls = Append(@, "list_files")]
          ELSE Fails(p, "list_files", outcome)
    /\ UNCHANGED <<runnerVars, store, uploads>>

UploadFile(p) ==
    /\ uploader[p].pc = "upload"
    /\ LET u == uploader[p]
           main_folder_name == MainFolderName(u.matching_folders)
           file_path == u.file_paths[Len(u.final_names) + 1]
           final_name == FinalName(file_path, u.existing_files)
       IN  \E outcome \in {"ok", "RemoteIOError"} :
              IF outcome = "ok"
              THEN /\ store' = [store EXCEPT !.files = @ \cup {<<main_folder_name, final_name>>}]
                   /\ uploader' =
                         [uploader EXCEPT ![p].pc = AfterFile(u),
                                          ![p].final_names = Append(@, final_name),
                                          ![p].calls = Append(@, "upload_file")]
              ELSE /\ Fails(p, "upload_file", outcome)
                   /\ store' = store
    /\ UNCHANGED <<runnerVars, uploads>>

NextUpload ==
    \E p \in Uploaders :
       \/ UploadFiles(p)
       \/ ListMatchingFolders(p)
       \/ ListSubfolders(p)
       \/ CreateSubfolder(p)
       \/ ListFiles(p)
       \/ UploadFile(p)

SpecUpload == InitUpload /\ [][NextUpload]_vars

\* --------------------------------- document store: one call after the other
\* One client calls upload_files again and again, each call with one file,
\* the next call starting after the one before has returned or raised.

MaxCalls == 3

\* What is kept of a call: the store's files when it started and when it
\* ended, the folder it wrote to, the names it wrote and how it ended.
CallStarted(file_paths) ==
    [file_paths |-> file_paths, files_before |-> store.files,
     files_after |-> store.files, main_folder |-> <<>>, final_names |-> <<>>,
     error |-> "pending"]

CallEnded(call, u) ==
    [call EXCEPT !.files_after = store.files,
                 !.main_folder = IF u.matching_folders = <<>>
                                 THEN <<>>
                                 ELSE MainFolderName(u.matching_folders),
                 !.final_names = u.final_names,
                 !.error = u.error]

InitSequential == InitUpload

\* self.sharepoint.upload_files([log_path])
UploadFilesCall ==
    /\ uploader[1].pc = "not_called"
    /\ Len(uploads) < MaxCalls
    /\ \E file_path \in Paths :
          /\ uploader' = [uploader EXCEPT ![1].pc = "list_folders",
                                          ![1].file_paths = <<file_path>>]
          /\ uploads' = Append(uploads, CallStarted(<<file_path>>))
    /\ UNCHANGED <<runnerVars, store>>

\* upload_files returns or raises: its locals are gone.
UploadFilesReturn ==
    /\ uploader[1].pc \in {"returned", "raised"}
    /\ uploads' = [uploads EXCEPT ![Len(uploads)] = CallEnded(@, uploader[1])]
    /\ uploader' = [uploader EXCEPT ![1] = NotCalled]
    /\ UNCHANGED <<runnerVars, store>>

NextSequential ==
    \/ UploadFilesCall
    \/ ListMatchingFolders(1)
    \/ ListSubfolders(1)
    \/ CreateSubfolder(1)
    \/ ListFiles(1)
    \/ UploadFile(1)
    \/ UploadFilesReturn

SpecSequential == InitSequential /\ [][NextSequential]_vars

\* ------------------------------------------------------ vocabulary of claims

Terminal == pc \in {"returned", "raised"}

Last(seq) == seq[Len(seq)]

CountOf(seq, v) == Cardinality({ i \in 1..Len(seq) : seq[i] = v })

AllFail == \A i \in 1..Len(taskHistory) : taskHistory[i] = "fail"

\* Invocation i (1-based) is the first that returned: all before it failed.
FirstOkAt(i) ==
    /\ taskHistory[i] = "ok"
    /\ \A j \in 1..(i - 1) : taskHistory[j] = "fail"

TaskFailure == Raised("TaskFailure", "_execute_bot_task", "try")

\* The handler caught a Resolver/Uploader error of the success branch at catch i.
UploaderErrorAt(i) ==
    /\ caught[i].site \in {"upload_files", "list_folders_by_number"}
    /\ caught[i].kind \in {"NotFound", "RemoteIOError"}

NoResult == items_processed = None \/ items_processed[1] <= 0

\* ---------------------------------------------------------------------- C1

\* C1: for every MAX_RETRIES = N >= 0, when the Task Body fails on every
\* invocation and no collaborator call raises, run() invokes the Task Body
\* at most N+1 times, keeps going until it has, and ends by raising the Task
\* Body's error after exactly N+1 invocations.
C1_AlwaysFailingTask ==
    (settings.MAX_RETRIES >= 0 /\ AllFail /\ ~collabRaised) =>
        /\ Len(taskHistory) <= settings.MAX_RETRIES + 1
        /\ ~Terminal => ENABLED Next
        /\ Terminal =>
             /\ pc = "raised"
             /\ Len(taskHistory) = settings.MAX_RETRIES + 1
             /\ exc = TaskFailure

C1_Witness ==
    /\ pc = "raised"
    /\ settings.MAX_RETRIES = 2
    /\ taskHistory = <<"fail", "fail", "fail">>
    /\ ~collabRaised
    /\ exc = TaskFailure

\* ---------------------------------------------------------------------- C2

C5_AsStated ==
    /\ pc = "raised" =>
           /\ attempts > settings.MAX_RETRIES
           /\ e = TaskFailure
           /\ exc = e
    /\ (Terminal /\ attempts <= settings.MAX_RETRIES) => pc = "returned"

\* C5 amended: run() raises either on the exhaustion path (a failure of the
\* try block, of the Task Body or of a success-branch statement, has just
\* been handled, attempts > MAX_RETRIES, and that error is the one raised)
\* or because a call made in the handler or in the finally block raised
\* (BotRunnerMaestro only), whatever the counter; a try-block failure that
\* leaves attempts <= MAX_RETRIES and whose handler and finally calls return
\* is followed by another attempt.
C5_RaisesOnlyWhenExhaustedOrLateRaise ==
    /\ pc = "raised" =>
           \/ /\ lateRaises = {}
              /\ attempts > settings.MAX_RETRIES
              /\ caught # <<>>
              /\ e = Last(caught)
              /\ exc = e
           \/ /\ lateRaises # {}
              /\ variant = "maestro"
              /\ exc.block \in {"except", "finally"}
              /\ exc.site \in lateRaises
    /\ (Terminal /\ lateRaises = {} /\ attempts <= settings.MAX_RETRIES) =>
           pc = "returned"
    /\ (pc = "loop" /\ attempts > 0) =>
           (attempts <= settings.MAX_RETRIES /\ ENABLED ExecuteBotTask)

C5_Witness ==
    /\ pc = "raised"
    /\ lateRaises = {"error"}
    /\ attempts = 1
    /\ settings.MAX_RETRIES = 2

\* ---------------------------------------------------------------------- C6

\* The Task Body failed on the final permitted attempt and run() has ended.
FinalAttemptFailed ==
    /\ Terminal
    /\ taskHistory # <<>>
    /\ Last(taskHistory) = "fail"
    /\ attempts > settings.MAX_RETRIES

\* C6 as stated: when the Task Body fails on the final permitted attempt,
\* run() raises that Task Body error, not the error of a call made while
\* handling it.
C6_AsStated ==
    FinalAttemptFailed => (pc = "raised" /\ exc = TaskFailure)

\* C6 amended: run() raises that Task Body error when every call made while
\* handling it (error report, FAILED status, document-store upload, artifact
\* post) returns; when one of them raises, run() raises that call's error
\* in its place.
C6_TaskErrorUnlessLateRaise ==
    FinalAttemptFailed =>
        /\ pc = "raised"
        /\ lateRaises = {} => exc = TaskFailure
        /\ lateRaises # {} =>
               /\ exc.site \in lateRaises
               /\ exc.block \in {"except", "finally"}
               /\ exc # TaskFailure

C6_Witness ==
    /\ FinalAttemptFailed
    /\ variant = "maestro"
    /\ lateRaises = {}
    /\ exc = TaskFailure
    /\ uploadsDone = 1
    /\ artifactCalls = 2

\* ---------------------------------------------------------------------- C7

FailedReports == CountOf(finishCalls, "FAILED")

\* C7 as stated (BotRunnerMaestro): every failed attempt makes exactly one
\* maestro.error call followed by exactly one finish_task(FAILED) call, both
\* before the retry / exhaustion decision; after j failed attempts FAILED
\* has been reported j times.
C7_AsStated ==
    variant = "maestro" =>
        /\ pc = "retry_decision" =>
               (errorCalls = attempts /\ FailedReports = attempts)
        /\ (Terminal \/ pc = "loop") =>
               (errorCalls = Len(caught) /\ FailedReports = Len(caught))

\* C7 amended: every failed attempt makes exactly one maestro.error call
\* and, when that call returns, exactly one finish_task(FAILED) call after
\* it, both before the retry / exhaustion decision; after j failed attempts
\* FAILED has been reported j times, or j-1 times when the last
\* maestro.error call raised.
C7_FailedReportedUnlessErrorRaised ==
    variant = "maestro" =>
        /\ pc = "retry_decision" =>
               (errorCalls = attempts /\ FailedReports = attempts)
        /\ pc \in {"finish_failed"} =>
               (errorCalls = attempts /\ FailedReports = attempts - 1)
        /\ (Terminal \/ pc = "loop") =>
               /\ errorCalls = Len(caught)
               /\ FailedReports =
                      IF "error" \in lateRaises THEN Len(caught) - 1 ELSE Len(caught)

C7_Witness ==
    /\ variant = "maestro"
    /\ pc = "loop"
    /\ attempts = 2
    /\ errorCalls = 2
    /\ finishCalls = <<"FAILED", "FAILED">>

\* ---------------------------------------------------------------------- C8

\* C8 (BotRunnerMaestro): every attempt that starts is followed by exactly
\* one post_artifact call before the next attempt starts or run() ends:
\* between attempts and at the end the number of post_artifact calls equals
\* the number of Task Body invocations, during an attempt it is one less.
C8_OneArtifactPostPerAttempt ==
    variant = "maestro" =>
        IF pc \in {"idle", "loop", "returned", "raised"}
        THEN artifactCalls = Len(taskHistory)
        ELSE artifactCalls = Len(taskHistory) - 1

C8_Witness ==
    /\ variant = "maestro"
    /\ pc = "returned"
    /\ taskHistory = <<"fail", "fail", "ok">>
    /\ artifactCalls = 3

\* ---------------------------------------------------------------------- C9

\* C9 (BotRunnerMaestro): when the Task Body fails j <= MAX_RETRIES times and
\* then returns a count c > 0, USE_DATABASE is set and no collaborator call
\* raises, the run ends with j+1 invocations, exactly one
\* finish_task(SUCCESS) call and exactly one inserted row, which carries c.
C9_OneSuccessOneInsert ==
    (variant = "maestro" /\ settings.USE_DATABASE /\ ~collabRaised /\ Terminal) =>
        \A i \in 1..Len(taskHistory) :
            (FirstOkAt(i) /\ ~NoResult) =>
                /\ pc = "returned"
                /\ Len(taskHistory) = i
                /\ CountOf(finishCalls, "SUCCESS") = 1
                /\ dbCalls = 1
                /\ dbLog = <<items_processed[1]>>

C9_Witness ==
    /\ variant = "maestro"
    /\ settings.MAX_RETRIES = 2
    /\ settings.USE_DATABASE
    /\ pc = "returned"
    /\ taskHistory = <<"fail", "fail", "ok">>
    /\ ~collabRaised
    /\ items_processed = <<2>>
    /\ dbLog = <<2>>
    /\ finishCalls = <<"FAILED", "FAILED", "SUCCESS">>

\* --------------------------------------------------------------------- C10

\* C10: rows are inserted only by the database step of a successful attempt,
\* and that step calls the insert if and only if USE_DATABASE is set and
\* items_processed is not None and > 0; with a result of 0 or None the step
\* raises nothing and inserts nothing, the attempt goes on to the SUCCESS
\* report and the break, and run() returns unless the SUCCESS report or the
\* artifact post itself raises.
C10_Step ==
    /\ (dbCalls' # dbCalls \/ dbLog' # dbLog) =>
           (pc = "database" /\ Last(taskHistory) = "ok")
    /\ pc = "database" =>
           ((dbCalls' = dbCalls + 1) <=>
                (/\ settings.USE_DATABASE
                 /\ items_processed # None
                 /\ items_processed[1] > 0))
    /\ (pc = "database" /\ NoResult) =>
           /\ dbCalls' = dbCalls /\ dbLog' = dbLog
           /\ pc' = IF variant = "maestro" THEN "finish_success" ELSE "returned"
           /\ attempts' = attempts
    /\ (pc = "finish_success" /\ pc' # "except") =>
           /\ finishCalls' = Append(finishCalls, "SUCCESS")
           /\ pc' = "finally" /\ pending' = "break"
    /\ (pc = "finally" /\ pending = "break" /\ pc' # "raised") =>
           (pc' = "returned" /\ taskHistory' = taskHistory)

Uploaded(p) == 1 .. Len(uploader[p].final_names)

\* The least n >= 1 whose name(n)ext is not in E.
LeastFree(name, ext, E) ==
    CHOOSE n \in 1 .. (Cardinality(E) + 1) :
       /\ Format(name, n, ext) \notin E
       /\ \A m \in 1 .. (n - 1) : Format(name, m, ext) \in E

\* The final name the contract gives to base_name against the listing E.
ContractName(base_name, E) ==
    IF base_name \notin E
    THEN base_name
    ELSE Format(Splitext(base_name).name,
                LeastFree(Splitext(base_name).name, Splitext(base_name).ext, E),
                Splitext(base_name).ext)

\* --------------------------------------------------------------------- C11
\* C11: every file an upload_files call has written got the name name+ext
\* when that name is not in the listing E the call captured, and otherwise
\* name(n)ext for the least n >= 1 that is not in E; two writes of the same
\* local name against the same E got the same final name, in whichever call.
C11_LeastFreeSuffix ==
    /\ \A p \in Uploaders : \A i \in Uploaded(p) :
          uploader[p].final_names[i] =
             ContractName(Basename(uploader[p].file_paths[i]), uploader[p].existing_files)
    /\ \A p, q \in Uploaders : \A i \in Uploaded(p) : \A j \in Uploaded(q) :
          ( /\ Basename(uploader[p].file_paths[i]) = Basename(uploader[q].file_paths[j])
            /\ uploader[p].existing_files = uploader[q].existing_files )
          => uploader[p].final_names[i] = uploader[q].final_names[j]

\* C11 witness: against E = {a.log, a(1).log} the local a.log was written as
\* a(2).log.
C11_Witness ==
    \E p \in Uploaders : \E i \in Uploaded(p) :
       /\ Basename(uploader[p].file_paths[i]) = A_LOG
       /\ uploader[p].existing_files = {A_LOG, A_1_LOG}
       /\ uploader[p].final_names[i] = A_2_LOG

\* --------------------------------------------------------------------- C12
\* C12: the final names one upload_files call has given to the files of its
\* batch are pairwise distinct.
C12_AsStated ==
    \A p \in Uploaders : \A i, j \in Uploaded(p) :
       i # j => uploader[p].final_names[i] # uploader[p].final_names[j]

\* --------------------------------------------------------------------- C13
\* The positions of the root listing whose name matches the prefix pattern.
Matches(listing) == { i \in 1 .. Len(listing) : ReMatch(folder_log, listing[i]) }

\* The first matching name in listing order.
FirstMatch(listing) ==
    listing[CHOOSE i \in Matches(listing) : \A j \in Matches(listing) : i <= j]

\* The root listing of upload_files call p has returned.
FoldersListed(p) ==
    /\ Len(uploader[p].calls) >= 1
    /\ ~ ( uploader[p].calls = <<"list_folders">> /\ uploader[p].error = "RemoteIOError" )

C13_State ==
    \A p \in Uploaders :
       FoldersListed(p) =>
          IF Matches(store.folders) = {}
          THEN /\ uploader[p].pc = "raised"
               /\ uploader[p].error = "NotFound"
               /\ uploader[p].calls = <<"list_folders">>
               /\ uploader[p].final_names = <<>>
          ELSE uploader[p].error # "NotFound"

C13_Step ==
    \A x \in (store'.files \ store.files) \cup (store'.subfolders \ store.subfolders) :
       /\ Matches(store.folders) # {}
       /\ x[1] = FirstMatch(store.folders)

\* C13: once the root listing has returned, upload_files has failed with the
\* not-found error, having created no subfolder and written no file, when no
\* folder name matches the prefix pattern; otherwise it has not failed that
\* way, and every subfolder it creates and every file it writes goes under
\* the first matching folder of the listing.
C13_NotFoundOrFirstMatch == [](C13_State) /\ [][C13_Step]_vars

\* C13 witness: the listing holds two matching folders after a non-matching
\* one, and a call has written a file under the first of the two.
C13_Witness ==
    /\ store.folders = <<F_HUNDRED, F_OLD, F_LOGS>>
    /\ \E p \in Uploaders :
          /\ uploader[p].final_names # <<>>
          /\ uploader[p].existing_files = {}
          /\ <<F_OLD, uploader[p].final_names[1]>> \in store.files
          /\ \A x \in store.files : x[1] = F_OLD

\* --------------------------------------------------------------------- C14
\* The positions of call in the calls upload_files call p has made.
CallsAt(p, call) ==
    { i \in 1 .. Len(uploader[p].calls) : uploader[p].calls[i] = call }

\* C14: an upload_files call never makes more than one create call and makes
\* none before its subfolder listing; once it is past the create decision
\* it has made exactly one create call when the bot's name was absent from
\* the subfolder listing it read and none when the name was there; and
\* every create call comes before the file listing and before every upload.
C14_CreateIffAbsent ==
    \A p \in Uploaders :
       /\ Cardinality(CallsAt(p, "create_folder")) <= 1
       /\ \A i \in CallsAt(p, "create_folder") : \E j \in CallsAt(p, "list_subfolders") : j < i
       /\ uploader[p].pc \in {"list_files", "upload", "returned"}
             => ( Cardinality(CallsAt(p, "create_folder")) = 1
                     <=> BOT_NAME \notin uploader[p].subfolder_names )
       /\ BOT_NAME \in uploader[p].subfolder_names => CallsAt(p, "create_folder") = {}
       /\ \A i \in CallsAt(p, "create_folder") :
             \A j \in CallsAt(p, "list_files") \cup CallsAt(p, "upload_file") : i < j

\* C14 witness: one call found the subfolder and made no create call, the
\* other found it absent and made one, and both have written a file.
C14_Witness ==
    \E p, q \in Uploaders :
       /\ BOT_NAME \in uploader[p].subfolder_names
       /\ CallsAt(p, "create_folder") = {}
       /\ uploader[p].final_names # <<>>
       /\ BOT_NAME \notin uploader[q].subfolder_names
       /\ Cardinality(CallsAt(q, "create_folder")) = 1
       /\ uploader[q].final_names # <<>>

\* --------------------------------------------------------------------- C15
\* upload_files call p has made its create call.
CreateCalled(p) == CallsAt(p, "create_folder") # {}

\* C15: a create call that the store refuses as a duplicate ends its
\* upload_files call with that failure raised to the caller, after a
\* subfolder listing without the bot's name and before any file listing or
\* upload; and when both calls have made their create call and no remote
\* error of another kind occurred, exactly one of them was refused.
C15_DuplicatePropagates ==
    /\ \A p \in Uploaders :
          uploader[p].error = "Duplicate"
             => /\ uploader[p].pc = "raised"
                /\ BOT_NAME \notin uploader[p].subfolder_names
                /\ Last(uploader[p].calls) = "create_folder"
                /\ CallsAt(p, "list_files") = {}
                /\ uploader[p].final_names = <<>>
    /\ ( \A p \in Uploaders : CreateCalled(p) /\ uploader[p].error # "RemoteIOError" )
          => Cardinality({ p \in Uploaders : uploader[p].error = "Duplicate" }) = 1

\* C15 witness: both calls read a subfolder listing without the bot's name
\* and both made the create call; the second was refused and raised having
\* written nothing, the first went on and wrote its file.
C15_Witness ==
    \E p, q \in Uploaders :
       /\ BOT_NAME \notin uploader[p].subfolder_names
       /\ BOT_NAME \notin uploader[q].subfolder_names
       /\ CreateCalled(p)
       /\ CreateCalled(q)
       /\ uploader[p].pc = "returned"
       /\ uploader[p].final_names # <<>>
       /\ uploader[q].pc = "raised"
       /\ uploader[q].error = "Duplicate"
       /\ uploader[q].file_paths # <<>>
       /\ uploader[q].final_names = <<>>

\* --------------------------------------------------------------------- C16
\* C16: every final name an upload_files call has written is absent from the
\* file listing that call captured before its first upload, whatever the
\* other call has written to the same folder in the meantime.
C16_UniqueAgainstOwnListing ==
    \A p \in Uploaders : \A i \in Uploaded(p) :
       uploader[p].final_names[i] \notin uploader[p].existing_files

\* C16 witness: two calls uploading the same local file name to the same
\* folder both captured a listing holding that name, and both wrote the
\* same final name.
C16_Witness ==
    \E p, q \in Uploaders :
       /\ p # q
       /\ uploader[p].final_names # <<>>
       /\ uploader[q].final_names # <<>>
       /\ MainFolderName(uploader[p].matching_folders)
             = MainFolderName(uploader[q].matching_folders)
       /\ Basename(uploader[p].file_paths[1]) = Basename(uploader[q].file_paths[1])
       /\ Basename(uploader[p].file_paths[1]) \in uploader[p].existing_files
       /\ uploader[p].final_names[1] = uploader[q].final_names[1]
       /\ uploader[p].final_names[1] \notin uploader[p].existing_files
       /\ uploader[q].final_names[1] \notin uploader[q].existing_files

\* --------------------------------------------------------------------- C17
\* The state of the specified machine that run() is in. An exception on its
\* way to the handler belongs to the phase that raised it; the finally block
\* belongs to the phase that is leaving the try statement; a run that ended
\* with the error of a handler or finally call is in none of the specified
\* states.
Phase ==
    CASE pc = "idle" -> "Idle"
      [] pc = "loop" -> "Attempting"
      [] pc = "except" -> IF exc = TaskFailure THEN "Attempting" ELSE "Reporting"
      [] pc \in {"resource_usage", "list_folders", "upload", "database",
                 "finish_success"} -> "Reporting"
      [] pc = "finally" -> IF pending = "break" THEN "Reporting" ELSE "Retrying"
      [] pc \in {"error", "finish_failed", "retry_decision", "upload_exhausted"}
            -> "Retrying"
      [] pc = "returned" -> "Completed"
      [] pc = "raised" -> IF lateRaises = {} THEN "Exhausted" ELSE "Failed"

\* One step of the specified machine, or a step inside one of its states
\* that leaves the counter alone.
MachineStep ==
    \/ Phase' = Phase /\ attempts' = attempts
    \/ Phase = "Idle" /\ Phase' = "Attempting"
    \/ Phase = "Attempting" /\ Phase' = "Reporting" /\ attempts' = attempts
    \/ Phase = "Reporting" /\ Phase' = "Completed" /\ attempts' = attempts
    \/ Phase = "Attempting" /\ Phase' = "Retrying" /\ attempts' = attempts + 1
    \/ /\ Phase = "Retrying" /\ Phase' = "Attempting"
       /\ attempts <= settings.MAX_RETRIES /\ attempts' = attempts
    \/ /\ Phase = "Retrying" /\ Phase' = "Exhausted"
       /\ attempts > settings.MAX_RETRIES /\ attempts' = attempts

\* The two kinds of step the code adds: a call of the success branch raised
\* and the handler caught it; a call of the handler or of the finally block
\* raised and its error left run().
ExtraStep ==
    \/ /\ Phase = "Reporting" /\ Phase' = "Retrying"
       /\ exc # TaskFailure /\ collabRaised
       /\ attempts' = attempts + 1
    \/ /\ Phase \in {"Reporting", "Retrying"} /\ Phase' = "Failed"
       /\ lateRaises' # {}
       /\ attempts' = attempts

\* C17 as stated: with MAX_RETRIES >= 0, every step of run() is a step of
\* the specified machine (Idle -> Attempting -> Reporting -> Completed,
\* Attempting -> Retrying with the counter incremented, Retrying ->
\* Attempting exactly when the counter is <= MAX_RETRIES, Retrying ->
\* Exhausted exactly when it is greater) and no other transition occurs.
C17_AsStated == [][settings.MAX_RETRIES >= 0 => MachineStep]_vars

\* C17 amended: with MAX_RETRIES >= 0, every step of run() is a step of the
\* specified machine, or Reporting -> Retrying with the counter incremented
\* after a call of the success branch raised, or a step from Reporting or
\* Retrying to a run that ends with the error of a handler or finally call.
C17_MachineWithCollaboratorFailures ==
    [][settings.MAX_RETRIES >= 0 => (MachineStep \/ ExtraStep)]_vars

\* C17 witness: a run went from Reporting to Retrying, was attempted again
\* and completed.
C17_Witness ==
    /\ pc = "returned"
    /\ settings.MAX_RETRIES >= 1
    /\ \E i \in 1 .. Len(caught) : caught[i] # TaskFailure
    /\ lateRaises = {}

\* --------------------------------------------------------------------- C18
\* run() has ended by raising the error of its last attempt.
ErrorPropagated == pc = "raised" /\ lateRaises = {}

\* The last three entries of seq.
Tail3(seq) == SubSeq(seq, Len(seq) - 2, Len(seq))

\* C18 as stated: in both runners, with MAX_RETRIES >= 0 and USE_SHAREPOINT
\* set, a run that ended by raising the error of its exhausted last attempt
\* made one upload of the log in the handler of that attempt.
C18_AsStated ==
    ( /\ settings.MAX_RETRIES >= 0
      /\ settings.USE_SHAREPOINT
      /\ ErrorPropagated
      /\ attempts > settings.MAX_RETRIES )
    => CountOf(attemptLog, "upload_files(exhausted)") = 1

\* C18 in the code: in BotRunnerMaestro with MAX_RETRIES >= 0 and USE_SHAREPOINT
\* set, a run that ended by raising the error of its last attempt had used
\* up its attempts and made, in the handler of that attempt, the error
\* report, the FAILED report and then one upload of the log, in this order;
\* a handler upload is made only by BotRunnerMaestro, only under
\* USE_SHAREPOINT and only when the attempts are used up; BotRunnerLocal
\* makes none.
C18_ExhaustionUploadInMaestroOnly ==
    /\ ( /\ settings.MAX_RETRIES >= 0
         /\ variant = "maestro"
         /\ settings.USE_SHAREPOINT
         /\ ErrorPropagated )
       => /\ attempts > settings.MAX_RETRIES
          /\ Len(attemptLog) >= 3
          /\ Tail3(attemptLog) =
                <<"maestro.error", "finish_task(FAILED)", "upload_files(exhausted)">>
          /\ CountOf(attemptLog, "upload_files(exhausted)") = 1
    /\ CountOf(attemptLog, "upload_files(exhausted)") >= 1
          => /\ variant = "maestro"
             /\ settings.USE_SHAREPOINT
             /\ attempts > settings.MAX_RETRIES
    /\ pc = "upload_exhausted"
          => /\ variant = "maestro"
             /\ settings.USE_SHAREPOINT
             /\ attempts > settings.MAX_RETRIES

\* C18 in the code, reached: BotRunnerMaestro, after a retry, ended by raising the error
\* of its last attempt with the handler upload made.
C18_MaestroUploaded ==
    /\ variant = "maestro"
    /\ settings.USE_SHAREPOINT
    /\ settings.MAX_RETRIES >= 1
    /\ ErrorPropagated
    /\ Last(attemptLog) = "upload_files(exhausted)"
    /\ uploadsDone >= 1

\* --------------------------------------------------------------------- C19
\* run() has called the Resolver or the Uploader.
StoreCalled ==
    \/ uploadCalls > 0
    \/ CountOf(attemptLog, "list_folders_by_number") > 0
    \/ collabRaised /\ \E i \in 1 .. Len(caught) :
          caught[i].site \in {"list_folders_by_number", "upload_files"}

\* C19 as stated: in both runners, with USE_SHAREPOINT false a run makes no
\* Resolver call and no Uploader call.
C19_AsStated == ~settings.USE_SHAREPOINT => ~StoreCalled

\* C19 in the code: BotRunnerMaestro with USE_SHAREPOINT false makes no
\* Resolver call and no Uploader call.
C19_MaestroHonoursFlag ==
    ( variant = "maestro" /\ ~settings.USE_SHAREPOINT ) => ~StoreCalled

\* C19 in the code, reached: BotRunnerMaestro with USE_SHAREPOINT false has
\* ended a run in which an attempt failed.
C19_MaestroFlagOff ==
    /\ variant = "maestro"
    /\ ~settings.USE_SHAREPOINT
    /\ Terminal
    /\ attempts >= 1

\* --------------------------------------------------------------------- C20
\* The calls of the success branch that a complete attempt has made before
\* the SUCCESS report, in the order of the code.
CompleteAttempt ==
    <<"_execute_bot_task", "_get_resource_usage">>
       \o (IF settings.USE_SHAREPOINT THEN <<"upload_files">> ELSE <<>>)
       \o (IF /\ settings.USE_DATABASE
              /\ items_processed # None
              /\ items_processed[1] > 0
           THEN <<"_insert_database_log_execution">>
           ELSE <<>>)

C20_Step ==
    ( variant = "maestro" /\ finishCalls' = Append(finishCalls, "SUCCESS") )
       => /\ attemptLog = CompleteAttempt
          /\ exc = NoException
          /\ CountOf(attemptLog, "finish_task(SUCCESS)") = 0

\* C20: in BotRunnerMaestro, SUCCESS is reported only in an attempt whose
\* Task Body, telemetry capture, log upload (under USE_SHAREPOINT) and
\* database insert (under USE_DATABASE with a positive count) have all
\* returned, in this order, with no exception raised in the attempt, and at
\* most once in the attempt; an attempt in which one of them raised ends
\* with no SUCCESS report.
C20_SuccessAfterAllReturned == [][C20_Step]_vars

\* C20 witness: the upload of the first attempt raised and that attempt
\* reported FAILED only; the second attempt uploaded, inserted its row and
\* then reported SUCCESS.
C20_Witness ==
    /\ variant = "maestro"
    /\ settings.USE_SHAREPOINT
    /\ settings.USE_DATABASE
    /\ pc = "returned"
    /\ Len(caught) = 1
    /\ caught[1].site = "upload_files"
    /\ finishCalls = <<"FAILED", "SUCCESS">>
    /\ attemptLog = CompleteAttempt \o <<"finish_task(SUCCESS)">>
    /\ Len(dbLog) = 1

\* --------------------------------------------------------------------- C21
\* The position of call in attemptLog, 0 when it has not returned.
PositionOf(call) ==
    IF \E i \in 1 .. Len(attemptLog) : attemptLog[i] = call
    THEN CHOOSE i \in 1 .. Len(attemptLog) : attemptLog[i] = call
    ELSE 0

Returned(call) == PositionOf(call) > 0

Before(first, second) ==
    ( Returned(first) /\ Returned(second) ) => PositionOf(first) < PositionOf(second)

\* C21 as stated: in an attempt the resource snapshot comes before the
\* database insert, the database insert before the log upload, and the log
\* upload before the SUCCESS report.
C21_AsStated ==
    /\ Before("_get_resource_usage", "_insert_database_log_execution")
    /\ Before("_insert_database_log_execution", "upload_files")
    /\ Before("upload_files", "finish_task(SUCCESS)")

\* C21 amended: in an attempt the resource snapshot comes before the log
\* upload, the log upload before the database insert, and the database
\* insert before the SUCCESS report; where the runner uploads
\* (BotRunnerLocal always, BotRunnerMaestro under USE_SHAREPOINT) the
\* insert is made only after the upload has returned.
C21_UploadBeforeInsert ==
    /\ Before("_get_resource_usage", "upload_files")
    /\ Before("upload_files", "_insert_database_log_execution")
    /\ Before("_insert_database_log_execution", "finish_task(SUCCESS)")
    /\ Before("upload_files", "finish_task(SUCCESS)")
    /\ ( /\ Returned("_insert_database_log_execution")
         /\ variant = "local" \/ settings.USE_SHAREPOINT )
       => Returned("upload_files")

\* C21 witness: a BotRunnerMaestro attempt has uploaded, inserted its row
\* and reported SUCCESS.
C21_Witness ==
    /\ variant = "maestro"
    /\ pc = "returned"
    /\ Returned("upload_files")
    /\ Returned("_insert_database_log_execution")
    /\ Returned("finish_task(SUCCESS)")
    /\ PositionOf("upload_files") + 1 = PositionOf("_insert_database_log_execution")

\* --------------------------------------------------------------------- C22
\* The calls of the one client that have ended, and those that returned.
Ended == { k \in 1 .. Len(uploads) : uploads[k].error # "pending" }

Succeeded == { k \in Ended : uploads[k].error = "None" }

\* The earlier calls that returned having written the same local name as k.
EarlierSame(k) ==
    { j \in Succeeded : /\ j < k
                        /\ Basename(uploads[j].file_paths[1])
                              = Basename(uploads[k].file_paths[1]) }

\* The name call k wrote, with the folder it wrote it to.
Written(k) == <<uploads[k].main_folder, uploads[k].final_names[1]>>

\* The target folder held no file when the first call started.
StartedEmpty ==
    Len(uploads) >= 1 /\ \A k \in Succeeded :
       \A x \in uploads[1].files_before : x[1] # uploads[k].main_folder

\* C22: of the upload_files calls one client makes one after the other, each
\* with one file, every call that returned has added exactly one file that
\* was not in the store when the call started and has removed none; a call
\* that raised has changed no file; no file is ever removed; and in a folder
\* that started empty the calls with the same local name wrote name.ext,
\* name(1).ext, name(2).ext, ... in call order.
C22_OneNewFilePerCall ==
    /\ \A k \in Succeeded :
          /\ Len(uploads[k].final_names) = 1
          /\ Written(k) \notin uploads[k].files_before
          /\ uploads[k].files_after = uploads[k].files_before \cup {Written(k)}
          /\ Cardinality(uploads[k].files_after)
                = Cardinality(uploads[k].files_before) + 1
    /\ \A k \in Ended \ Succeeded :
          uploads[k].files_after = uploads[k].files_before
    /\ \A k \in 1 .. Len(uploads) : uploads[k].files_before \subseteq store.files
    /\ StartedEmpty =>
          \A k \in Succeeded :
             uploads[k].final_names[1] =
                IF EarlierSame(k) = {}
                THEN Basename(uploads[k].file_paths[1])
                ELSE Format(Splitext(Basename(uploads[k].file_paths[1])).name,
                            Cardinality(EarlierSame(k)),
                            Splitext(Basename(uploads[k].file_paths[1])).ext)

\* C22 witness: three calls with the local name a.log against a folder that
\* started empty wrote a.log, a(1).log and a(2).log, and the folder holds
\* three files.
C22_Witness ==
    /\ Len(uploads) = 3
    /\ Succeeded = {1, 2, 3}
    /\ uploads[1].files_before = {}
    /\ uploads[1].final_names = <<A_LOG>>
    /\ uploads[2].final_names = <<A_1_LOG>>
    /\ uploads[3].final_names = <<A_2_LOG>>
    /\ Cardinality(store.files) = 3

\* --------------------------------------------------------------------- C23
\* The store rejected a file write of upload_files call p.
WriteRejected(p) ==
    /\ uploader[p].error = "RemoteIOError"
    /\ Last(uploader[p].calls) = "upload_file"

\* C23: an upload_files call writes its files in the order of file_paths;
\* when the store rejects the write of the k-th file the call has raised that
\* error, the k-1 files before it are in the store under their final names,
\* and the k write calls made are all the call has made: no file after the
\* k-th is attempted.
C23_StopsAtRejectedWrite ==
    \A p \in Uploaders :
       /\ Len(uploader[p].final_names) <= Len(uploader[p].file_paths)
       /\ \A i \in Uploaded(p) :
             Splitext(uploader[p].final_names[i]).ext
                = Splitext(Basename(uploader[p].file_paths[i])).ext
       /\ WriteRejected(p) =>
             /\ uploader[p].pc = "raised"
             /\ Len(uploader[p].final_names) < Len(uploader[p].file_paths)
             /\ Cardinality(CallsAt(p, "upload_file"))
                   = Len(uploader[p].final_names) + 1
             /\ \A i \in Uploaded(p) :
                   <<MainFolderName(uploader[p].matching_folders),
                     uploader[p].final_names[i]>> \in store.files

\* C23 witness: one call was rejected on the first of its two files and
\* wrote nothing; the other was rejected on the second of its two files and
\* its first file is in the store.
C23_Witness ==
    \E p, q \in Uploaders :
       /\ WriteRejected(p)
       /\ Len(uploader[p].file_paths) = 2
       /\ uploader[p].final_names = <<>>
       /\ Cardinality(CallsAt(p, "upload_file")) = 1
       /\ WriteRejected(q)
       /\ Len(uploader[q].file_paths) = 2
       /\ Len(uploader[q].final_names) = 1
       /\ <<MainFolderName(uploader[q].matching_folders), uploader[q].final_names[1]>>
             \in store.files

\* --------------------------------------------------------------------- C24
\* The seconds a reported 'DD:HH:MM:SS' stands for.
Seconds(time) == time[1] * 86400 + time[2] * 3600 + time[3] * 60 + time[4]

\* The reports of the current attempt of one kind.
ReportsOf(kind) ==
    { i \in 1 .. Len(timeline.reports) : timeline.reports[i].kind = kind }

\* C24: every execution time an attempt reports (log line, SUCCESS message,
\* database record) is the time from the start of that same attempt to the
\* moment it was measured, whatever time earlier attempts took; the SUCCESS
\* message carries the time of the log line, and the database record is
\* measured when the insert is called.
C24_TimedFromOwnStart ==
    /\ \A i \in 1 .. Len(timeline.reports) :
          LET r == timeline.reports[i]
          IN  /\ Len(r.time) = 4
              /\ r.began = timeline.began
              /\ Seconds(r.time) = r.at - r.began
              /\ Seconds(r.time) <= now - timeline.began
    /\ \A i \in ReportsOf("message") : \A j \in ReportsOf("log") :
          timeline.reports[i].time = timeline.reports[j].time
    /\ \A i \in ReportsOf("database") : \A j \in ReportsOf("log") :
          Seconds(timeline.reports[i].time) >= Seconds(timeline.reports[j].time)

\* C24 witness: a first attempt failed after one second or more; the second
\* attempt logged its time, inserted its row a second or more later and
\* reported SUCCESS, each measured from the start of the second attempt.
C24_Witness ==
    /\ variant = "maestro"
    /\ pc = "returned"
    /\ attempts = 1
    /\ timeline.began >= 1
    /\ ReportsOf("log") # {}
    /\ ReportsOf("message") # {}
    /\ \E i \in ReportsOf("database") : \E j \in ReportsOf("log") :
          /\ Seconds(timeline.reports[j].time) >= 1
          /\ Seconds(timeline.reports[i].time) > Seconds(timeline.reports[j].time)

\* --------------------------------------------------------------------- C25
\* run() has ended, by returning or by raising.
Terminated == pc \in {"returned", "raised"}

\* The Task Body invocations run() may make: MAX_RETRIES + 1, none when the
\* loop condition is false from the start.
MaxInvocations == IF settings.MAX_RETRIES < 0 THEN 0 ELSE settings.MAX_RETRIES + 1

\* C25: whatever the Task Body and the collaborators do (each call returns or
\* raises), run() never invokes the Task Body more than MAX_RETRIES + 1
\* times, and it ends, by returning or by raising.
C25_TerminatesWithinBudget ==
    /\ [](Len(taskHistory) <= MaxInvocations)
    /\ <>Terminated

\* C25 witness: a run that used its whole budget of three invocations, with a
\* failing Task Body and a failing collaborator among them, and ended.
C25_Witness ==
    /\ Terminated
    /\ settings.MAX_RETRIES = 2
    /\ Len(taskHistory) = 3
    /\ \E i \in 1 .. 3 : taskHistory[i] = "fail"
    /\ \E i \in 1 .. 3 : taskHistory[i] = "ok"
    /\ collabRaised

\* --------------------------------------------------------------------- C26
\* The loop iterations whose try block raised and were caught so far.
FailedIterations == Len(caught)

\* C26, in every state: 0 <= attempts <= MAX_RETRIES + 1, attempts is the
\* number of failed loop iterations so far, and the attempt number logged by
\* the iteration under way is the number of iterations that failed before it.
C26_State ==
    /\ attempts >= 0
    /\ attempts <= settings.MAX_RETRIES + 1
    /\ attempts = FailedIterations
    /\ attempts <= Len(taskHistory)
    /\ timeline.attempt # None =>
          /\ timeline.attempt[1] = Len(taskHistory) - 1
          /\ timeline.attempt[1] <= FailedIterations
          /\ pc \notin {"loop", "returned", "raised"} =>
                timeline.attempt[1] =
                    IF pc \in {"resource_usage", "list_folders", "upload", "database",
                               "finish_success", "except"}
                       \/ (pc = "finally" /\ pending = "break")
                    THEN FailedIterations
                    ELSE FailedIterations - 1

\* C26, in every step: attempts changes only by +1, only in the handler of an
\* exception raised in the try block; an iteration that starts logs the
\* number of failures caught before it.
C26_Step ==
    /\ attempts' # attempts =>
          /\ attempts' = attempts + 1
          /\ pc = "except"
          /\ exc.block = "try"
          /\ Len(caught') = Len(caught) + 1
    /\ Len(taskHistory') # Len(taskHistory) =>
          /\ timeline'.attempt = <<FailedIterations>>
          /\ attempts' = attempts

\* C26: the attempt counter stays within 0 .. MAX_RETRIES + 1, grows only by
\* one and only when the try block of an iteration raised, counts the failed
\* iterations, and is the number logged at the start of every iteration.
C26_AttemptCounter == [](C26_State) /\ [][C26_Step]_vars

\* C26 witness: the third iteration of a run with MAX_RETRIES = 2 logged
\* attempt 2 after two failures, failed too, and the counter reached 3.
C26_Witness ==
    /\ settings.MAX_RETRIES = 2
    /\ attempts = 3
    /\ timeline.attempt = <<2>>
    /\ Len(taskHistory) = 3
    /\ collabRaised
    /\ pc = "raised"

\* --------------------------------------------------------------------- C27
\* The status of the last finish_task call made so far.
LastStatus == IF finishCalls = <<>> THEN "none" ELSE finishCalls[Len(finishCalls)]

\* A FAILED status was reported after a SUCCESS status.
FailedAfterSuccess ==
    \E i, j \in 1 .. Len(finishCalls) :
        i < j /\ finishCalls[i] = "SUCCESS" /\ finishCalls[j] = "FAILED"

\* The finish_task(SUCCESS) call of an earlier iteration raised.
SuccessCallRaised ==
    \E k \in 1 .. Len(caught) :
        caught[k] = Raised("RemoteIOError", "finish_task", "try")

\* C27 as stated, for MAX_RETRIES >= 0: a BotRunnerMaestro run that returned
\* has SUCCESS as its last status, one that raised has FAILED, and FAILED
\* never follows SUCCESS.
C27_AsStated ==
    (variant = "maestro" /\ settings.MAX_RETRIES >= 0) =>
        /\ pc = "returned" => LastStatus = "SUCCESS"
        /\ pc = "raised" => LastStatus = "FAILED"
        /\ ~FailedAfterSuccess

\* C27: in BotRunnerMaestro with MAX_RETRIES >= 0, a run that returned has
\* SUCCESS as its last status; a run that raised the error of its last
\* attempt (raise e, not replaced by an error of the handler or of the
\* finally block) has FAILED as its last status; a run that raised in any
\* other way raised the error of a tracking-client or upload call made in the
\* handler or the finally block; and FAILED follows SUCCESS only when the
\* finish_task(SUCCESS) call itself raised.
C27_StatusAgreesUnlessReportingFails ==
    (variant = "maestro" /\ settings.MAX_RETRIES >= 0) =>
        /\ pc = "returned" =>
              /\ LastStatus = "SUCCESS"
              /\ attemptLog[Len(attemptLog)] = "finish_task(SUCCESS)"
        /\ (pc = "raised" /\ exc.block = "try") =>
              /\ exc = e
              /\ LastStatus = "FAILED"
        /\ (pc = "raised" /\ exc.block # "try") =>
              /\ exc.site \in {"error", "finish_task", "upload_files",
                               "_add_log_file_into_maestro"}
              /\ exc.site \in lateRaises
        /\ FailedAfterSuccess => SuccessCallRaised

\* C27 witness: the finish_task(SUCCESS) call of the first attempt raised,
\* the handler reported FAILED, the second attempt failed in the Task Body
\* and run() raised that error with FAILED as the last status.
C27_Witness ==
    /\ variant = "maestro"
    /\ settings.MAX_RETRIES = 1
    /\ pc = "raised"
    /\ exc = e
    /\ e.kind = "TaskFailure"
    /\ finishCalls = <<"SUCCESS", "FAILED", "FAILED">>

\* C27, the other way a run ends: the task was reported SUCCESS, then the
\* artifact post of the finally block raised and run() raised.
C27_RaisedAfterSuccess ==
    /\ variant = "maestro"
    /\ pc = "raised"
    /\ LastStatus = "SUCCESS"
    /\ exc.site = "_add_log_file_into_maestro"

\* --------------------------------------------------------------------- C28
\* The upload_files calls of the success branch that returned: every upload
\* that returned, less the one of the handler after exhaustion.
SuccessPathUploads ==
    uploadsDone - (IF \E i \in 1 .. Len(attemptLog) :
                          attemptLog[i] = "upload_files(exhausted)"
                   THEN 1 ELSE 0)

\* C28 as stated: a run writes at most one database row and completes at most
\* one success-branch upload, whatever the Task Body and the collaborators do.
C28_AsStated ==
    /\ Len(dbLog) <= 1
    /\ SuccessPathUploads <= 1

\* C28 in the code: the success branch is inside the retried try block, so a
\* run completes at most one insert and one success-branch upload per Task
\* Body invocation, and at most one of each when no collaborator call raised.
C28_OncePerInvocation ==
    /\ Len(dbLog) <= Len(taskHistory)
    /\ SuccessPathUploads <= Len(taskHistory)
    /\ ~collabRaised => (Len(dbLog) <= 1 /\ SuccessPathUploads <= 1)

\* C28 in the code: a run that returned after the SUCCESS report of its first
\* attempt raised; the second attempt uploaded and inserted again.
C28_Repeated ==
    /\ variant = "maestro"
    /\ pc = "returned"
    /\ taskHistory = <<"ok", "ok">>
    /\ Len(dbLog) = 2
    /\ SuccessPathUploads = 2

\* ------------------------------------------ the Telegram-notifying runners
\* src/botcity_aux/bot_runner.py: BotRunnerMaestro and BotRunnerLocal run the
\* Task Body once, without a retry loop, and notify a Telegram group through
\* TelegramBot (src/botcity_aux/telegram_plugin.py).

\* What get_credential(label="Telegram", key="token") hands to the
\* constructor: None, an empty string or a token.
TokenValues == {"None", "", "token"}

\* TelegramBot(token=self.telegram_token) if self.telegram_token else None
TelegramBotOf(token) == IF token \in {"None", ""} THEN "None" ELSE "TelegramBot"

\* The runner after construction.
InitTelegram ==
    /\ variant \in {"telegram_maestro", "telegram_local"}
    /\ settings = [MAX_RETRIES |-> 0, USE_SHAREPOINT |-> FALSE, USE_DATABASE |-> FALSE]
    /\ pc = "idle"
    /\ attempts = 0
    /\ items_processed = None
    /\ e = NoException
    /\ exc = NoException
    /\ pending = "none"
    /\ taskHistory = <<>>
    /\ caught = <<>>
    /\ collabRaised = FALSE
    /\ lateRaises = {}
    /\ errorCalls = 0
    /\ finishCalls = <<>>
    /\ artifactCalls = 0
    /\ uploadCalls = 0
    /\ uploadsDone = 0
    /\ dbCalls = 0
    /\ dbLog = <<>>
    /\ attemptLog = <<>>
    /\ store = NoStore
    /\ uploader = [p \in Uploaders |-> NotCalled]
    /\ uploads = <<>>
    /\ now = 0
    /\ start_time = None
    /\ execution_time = None
    /\ timeline = NoTimeline
    /\ \E token \in TokenValues :
         telegram = [telegram_token |-> token,
                     telegram_bot |-> TelegramBotOf(token),
                     calls |-> <<>>]

\* What the Telegram-notifying runners never touch.
notTelegram == <<variant, settings, attempts, items_processed, errorCalls, finishCalls,
                 uploadCalls, uploadsDone, dbCalls, dbLog, store, uploader, uploads,
                 now, timeline>>

\* Leaving the try statement: BotRunnerMaestro runs the finally block first,
\* BotRunnerLocal has none.
LeaveTelegramTry(how) ==
    IF variant = "telegram_maestro"
    THEN [pc |-> "finally", pending |-> how]
    ELSE [pc |-> IF how = "return" THEN "returned" ELSE "raised", pending |-> "none"]

\* TelegramBot.send_message / upload_document: the plugin call returns, or it
\* raises and the method logs the error and returns None.
Served(method, text, plugin) ==
    [telegram EXCEPT !.calls =
        Append(@, [method |-> method, text |-> text,
                   outcome |-> IF plugin = "ok" THEN "sent" ELSE "swallowed"])]

\* self.telegram_bot.<method>(...) in the try block. With telegram_bot = None
\* the attribute lookup raises AttributeError, which the handler catches.
NotifyInTry(method, text, next) ==
    IF telegram.telegram_bot = "None"
    THEN /\ RaiseInTry(Raised("AttributeError", method, "try"))
         /\ UNCHANGED <<telegram, attemptLog, collabRaised, pending>>
    ELSE \E plugin \in {"ok", "raise"} :
           /\ telegram' = Served(method, text, plugin)
           /\ attemptLog' = Append(attemptLog, method)
           /\ collabRaised' = (collabRaised \/ plugin = "raise")
           /\ pc' = next.pc
           /\ pending' = next.pending
           /\ exc' = exc

\* self.telegram_bot.<method>(...) in the handler. With telegram_bot = None
\* the AttributeError leaves the handler in place of e.
NotifyInHandler(method, text, next) ==
    IF telegram.telegram_bot = "None"
    THEN /\ exc' = Raised("AttributeError", method, "except")
         /\ pc' = LeaveTelegramTry("raise").pc
         /\ pending' = LeaveTelegramTry("raise").pending
         /\ lateRaises' = lateRaises \cup {method}
         /\ UNCHANGED <<telegram, attemptLog, collabRaised>>
    ELSE \E plugin \in {"ok", "raise"} :
           /\ telegram' = Served(method, text, plugin)
           /\ attemptLog' = Append(attemptLog, method)
           /\ collabRaised' = (collabRaised \/ plugin = "raise")
           /\ pc' = next
           /\ UNCHANGED <<exc, pending, lateRaises>>

\* run() is called.
TelegramRun ==
    /\ pc = "idle"
    /\ pc' = "try"
    /\ UNCHANGED <<notTelegram, telegram, e, exc, pending, taskHistory, caught,
                   collabRaised, lateRaises, artifactCalls, attemptLog, start_time,
                   execution_time>>

\* self.start_time = time.time(); self._execute_bot_task()
TelegramExecuteBotTask ==
    /\ pc = "try"
    /\ start_time' = StartTime(start_time)
    /\ \E outcome \in {"ok", "fail"} :
         /\ taskHistory' = Append(taskHistory, outcome)
         /\ IF outcome = "ok"
            THEN /\ pc' = "report"
                 /\ exc' = exc
                 /\ attemptLog' = Append(attemptLog, "_execute_bot_task")
            ELSE /\ RaiseInTry(Raised("TaskFailure", "_execute_bot_task", "try"))
                 /\ attemptLog' = attemptLog
    /\ UNCHANGED <<notTelegram, telegram, e, pending, caught, collabRaised, lateRaises,
                   artifactCalls, execution_time>>

\* logger.info(f"Execution time: {self._get_execution_time()}") and the
\* resource usage line.
TelegramLogUsage ==
    /\ pc = "report"
    /\ execution_time' = ExecutionTime(now, start_time)
    /\ attemptLog' = Append(attemptLog, "_get_resource_usage")
    /\ pc' = "send_completed"
    /\ UNCHANGED <<notTelegram, telegram, e, exc, pending, taskHistory, caught,
                   collabRaised, lateRaises, artifactCalls, start_time>>

\* self.telegram_bot.send_message(f"{self.bot_name} Bot execution completed.", ...)
TelegramSendCompleted ==
    /\ pc = "send_completed"
    /\ NotifyInTry("send_message", "completed",
                   [pc |-> "upload_completed", pending |-> pending])
    /\ UNCHANGED <<notTelegram, e, taskHistory, caught, lateRaises, artifactCalls,
                   start_time, execution_time>>

\* self.telegram_bot.upload_document(document=self.logger.log_path, ...); the
\* try block ends and run() returns
TelegramUploadCompleted ==
    /\ pc = "upload_completed"
    /\ NotifyInTry("upload_document", "completed", LeaveTelegramTry("return"))
    /\ UNCHANGED <<notTelegram, e, taskHistory, caught, lateRaises, artifactCalls,
                   start_time, execution_time>>

\* except Exception as e:
TelegramExceptHandler ==
    /\ pc = "except"
    /\ e' = exc
    /\ caught' = Append(caught, exc)
    /\ pc' = "send_error"
    /\ UNCHANGED <<notTelegram, telegram, exc, pending, taskHistory, collabRaised,
                   lateRaises, artifactCalls, attemptLog, start_time, execution_time>>

\* self.telegram_bot.send_message(f"An error occurred during bot ...: {e}", ...)
TelegramSendError ==
    /\ pc = "send_error"
    /\ NotifyInHandler("send_message", "error", "upload_error")
    /\ UNCHANGED <<notTelegram, e, taskHistory, caught, artifactCalls, start_time,
                   execution_time>>

\* self.telegram_bot.upload_document(document=self.logger.log_path, ...)
TelegramUploadError ==
    /\ pc = "upload_error"
    /\ NotifyInHandler("upload_document", "error", "reraise")
    /\ UNCHANGED <<notTelegram, e, taskHistory, caught, artifactCalls, start_time,
                   execution_time>>

\* raise e
TelegramReraise ==
    /\ pc = "reraise"
    /\ exc' = e
    /\ pc' = LeaveTelegramTry("raise").pc
    /\ pending' = LeaveTelegramTry("raise").pending
    /\ UNCHANGED <<notTelegram, telegram, e, taskHistory, caught, collabRaised,
                   lateRaises, artifactCalls, attemptLog, start_time, execution_time>>

\* BotRunnerMaestro only: finally: self._add_log_file_into_maestro()
\* post_artifact returns: run() returns or the pending exception leaves it.
\* post_artifact raises: that exception leaves run() instead.
TelegramAddLogFileIntoMaestro ==
    /\ pc = "finally"
    /\ artifactCalls' = artifactCalls + 1
    /\ \E ok \in BOOLEAN :
         IF ok
         THEN /\ pc' = IF pending = "return" THEN "returned" ELSE "raised"
              /\ attemptLog' = Append(attemptLog, "_add_log_file_into_maestro")
              /\ UNCHANGED <<exc, collabRaised, lateRaises>>
         ELSE /\ pc' = "raised"
              /\ exc' = Raised("RemoteIOError", "_add_log_file_into_maestro", "finally")
              /\ collabRaised' = TRUE
              /\ lateRaises' = lateRaises \cup {"_add_log_file_into_maestro"}
              /\ attemptLog' = attemptLog
    /\ pending' = "none"
    /\ UNCHANGED <<notTelegram, telegram, e, taskHistory, caught, start_time,
                   execution_time>>

NextTelegram ==
    \/ TelegramRun
    \/ TelegramExecuteBotTask
    \/ TelegramLogUsage
    \/ TelegramSendCompleted
    \/ TelegramUploadCompleted
    \/ TelegramExceptHandler
    \/ TelegramSendError
    \/ TelegramUploadError
    \/ TelegramReraise
    \/ TelegramAddLogFileIntoMaestro

SpecTelegram == InitTelegram /\ [][NextTelegram]_vars

\* --------------------------------------------------------------------- C29
\* The error the Task Body raised.
TaskError == Raised("TaskFailure", "_execute_bot_task", "try")

\* A Telegram call made in the handler failed: the plugin raised inside
\* TelegramBot, or the call on self.telegram_bot itself raised.
HandlerNotificationFailed ==
    \/ \E i \in 1 .. Len(telegram.calls) :
          telegram.calls[i].text = "error" /\ telegram.calls[i].outcome = "swallowed"
    \/ lateRaises \cap {"send_message", "upload_document"} # {}

\* The artifact post of the finally block raised.
ArtifactPostRaised == "_add_log_file_into_maestro" \in lateRaises

\* C29 as stated: when the Task Body failed and a Telegram call made while
\* handling the failure failed too, run() raises the Task Body's error (runs
\* whose artifact post raised are left out).
C29_AsStated ==
    (/\ pc = "raised"
     /\ taskHistory = <<"fail">>
     /\ HandlerNotificationFailed
     /\ ~ArtifactPostRaised) => exc = TaskError

\* C29 in the code: a runner constructed with a token has a TelegramBot, whose
\* methods swallow the plugin's failures, and then run() raises the Task
\* Body's error; only the AttributeError of a call on telegram_bot = None and
\* the error of the artifact post replace it.
C29_TelegramBotSwallows ==
    /\ (/\ pc = "raised"
        /\ taskHistory = <<"fail">>
        /\ telegram.telegram_bot = "TelegramBot"
        /\ ~ArtifactPostRaised) => exc = TaskError
    /\ (pc = "raised" /\ exc # TaskError) =>
          \/ ArtifactPostRaised
          \/ /\ telegram.telegram_bot = "None"
             /\ exc.kind = "AttributeError"
             /\ exc.block = "except"
    /\ telegram.telegram_bot = "None" => telegram.calls = <<>>

\* C29 in the code: both Telegram calls of the handler failed inside
\* TelegramBot and run() raised the Task Body's error.
C29_Swallowed ==
    /\ pc = "raised"
    /\ exc = TaskError
    /\ Len(telegram.calls) = 2
    /\ \A i \in 1 .. 2 : telegram.calls[i].outcome = "swallowed"

\* --------------------------------------------------------------------- C30
\* TelegramBot served a notification of the failure.
FailureNotified ==
    \E i \in 1 .. Len(telegram.calls) :
        telegram.calls[i].method = "send_message" /\ telegram.calls[i].text = "error"

\* C30 as stated, for BotRunnerMaestro of bot_runner.py: a run that ended
\* invoked the Task Body once and posted the log file once; when the Task
\* Body failed, the failure was notified and run() raised the Task Body's
\* error (runs whose artifact post raised are left out of this part); the
\* artifact post is the last call of the run.
C30_AsStated ==
    variant = "telegram_maestro" =>
        /\ Len(taskHistory) <= 1
        /\ artifactCalls <= 1
        /\ artifactCalls = 1 => Terminated
        /\ Terminated =>
              /\ Len(taskHistory) = 1
              /\ artifactCalls = 1
              /\ (taskHistory = <<"fail">> /\ ~ArtifactPostRaised) =>
                    /\ pc = "raised"
                    /\ exc = TaskError
                    /\ FailureNotified

\* C30 in the code, in every state: one Task Body invocation, one artifact
\* post, made last; the failure is notified and re-raised when the runner
\* has a TelegramBot.
C30_OnceState ==
    variant = "telegram_maestro" =>
        /\ Len(taskHistory) <= 1
        /\ artifactCalls <= 1
        /\ artifactCalls = 1 => Terminated
        /\ Terminated =>
              /\ Len(taskHistory) = 1
              /\ artifactCalls = 1
              /\ (/\ taskHistory = <<"fail">>
                  /\ ~ArtifactPostRaised
                  /\ telegram.telegram_bot = "TelegramBot") =>
                    /\ pc = "raised"
                    /\ exc = TaskError
                    /\ FailureNotified
              /\ pc = "returned" => taskHistory = <<"ok">>

\* C30 in the code, in every step: the artifact is posted from the finally
\* block, after which run() has ended, and no Telegram call follows it.
C30_OnceStep ==
    variant = "telegram_maestro" =>
        /\ artifactCalls' # artifactCalls =>
              /\ pc = "finally"
              /\ pc' \in {"returned", "raised"}
        /\ artifactCalls = 1 => telegram' = telegram

\* C30 in the code: no retry, one artifact post as the last call of run().
C30_SingleAttemptArtifactLast == [](C30_OnceState) /\ [][C30_OnceStep]_vars

====
